---- MODULE Spec2Model ----
(***************************************************************************)
(* Morton (Z-order) codec of juno: include/juno/math/morton.hpp, with the  *)
(* contract macros of include/juno/common/assert.hpp.                      *)
(*                                                                         *)
(* A W-bit unsigned integer is modelled as the set of its set bit          *)
(* positions (a subset of 0..W-1), so that 32- and 64-bit words keep their *)
(* exact width: a left shift drops the bits that leave the word.           *)
(***************************************************************************)
EXTENDS Integers, Sequences, FiniteSets, TLC

\* ------------------------------------------------------------------------
\* Bounds of the model
\* ------------------------------------------------------------------------

\* Largest number of bit flips applied to a background word or tuple when the
\* arguments of a call are drawn.
MaxOnes == 1

\* ------------------------------------------------------------------------
\* Unsigned W-bit words as sets of bit positions
\* ------------------------------------------------------------------------

Widths == {32, 64}

Dims == {2, 3}

BitPos(W) == 0 .. (W - 1)

Zero == {}

AllOnes(W) == BitPos(W)

\* static_cast<U>(v): keep the low W bits
Trunc(v, W) == {p \in v : p < W}

\* x << k in a W-bit word
Shl(x, k, W) == {p + k : p \in {q \in x : q + k < W}}

\* x >> k
Shr(x, k) == {p - k : p \in {q \in x : q >= k}}

BitAnd(a, b) == a \cap b

BitOr(a, b) == a \cup b

BitXor(a, b) == (a \ b) \cup (b \ a)

MinOf(S) == CHOOSE m \in S : \A n \in S : m <= n

MaxOf(S) == 0 - MinOf({0 - n : n \in S})

\* a <= b on unsigned words: the highest bit in which they differ is b's
LessEq(a, b) == a = b \/ MaxOf(BitXor(a, b)) \in b

\* a - 1 in a W-bit word
Decrement(a, W) ==
    IF a = {} THEN AllOnes(W)
    ELSE (a \ {MinOf(a)}) \cup {p \in BitPos(W) : p < MinOf(a)}

\* The bits of one hexadecimal digit
HexDigit(d) == {i \in 0 .. 3 : (d \div (2 ^ i)) % 2 = 1}

\* A hexadecimal literal, digits written most significant first as in the
\* source: 0x030000ff is Hex(<<0, 3, 0, 0, 0, 0, 15, 15>>)
Hex(s) == UNION {{4 * (Len(s) - j) + i : i \in HexDigit(s[j])} : j \in 1 .. Len(s)}

\* A small decimal literal
Lit(n) == {i \in 0 .. 30 : (n \div (2 ^ i)) % 2 = 1}

\* sizeof(U)
SizeOf(W) == W \div 8


\* ------------------------------------------------------------------------
\* Maximum coordinate values (morton.hpp 48-59)
\* ------------------------------------------------------------------------

\* (static_cast<U>(1) << (4 * sizeof(U))) - 1
max_2d_morton_coord(W) == Decrement(Shl(Lit(1), 4 * SizeOf(W), W), W)

\* Variant: one bit fewer per axis
max_3d_morton_coord_short(W) == Decrement(Shl(Lit(1), (8 * SizeOf(W)) \div 3 - 1, W), W)

\* (static_cast<U>(1) << (8 * sizeof(U) / 3)) - 1
max_3d_morton_coord(W) == Decrement(Shl(Lit(1), (8 * SizeOf(W)) \div 3, W), W)

max_morton_coord(W, D) ==
    IF D = 2 THEN max_2d_morton_coord(W) ELSE max_3d_morton_coord(W)

\* ------------------------------------------------------------------------
\* BMI2 intrinsics (morton.hpp 72-94): _pdep_u32/_pdep_u64 deposit the low
\* bits of source at the set positions of mask, lowest first; _pext_u32/
\* _pext_u64 collect the bits of source at the set positions of mask into
\* the low bits of the result.
\* ------------------------------------------------------------------------

\* Number of mask bits below position p
MaskRank(p, mask) == Cardinality({q \in mask : q < p})

pdep(source, mask) == {p \in mask : MaskRank(p, mask) \in source}

pext(source, mask) == {MaskRank(p, mask) : p \in (mask \cap source)}

\* Masks for interleaving bits in 2D and 3D morton codes (morton.hpp 97-111)
bmi_2d_x_mask(W) == Trunc(Hex(<<5, 5, 5, 5, 5, 5, 5, 5, 5, 5, 5, 5, 5, 5, 5, 5>>), W)

\* Variant: the y mask repeats the x mask
bmi_2d_y_mask_copy(W) == Trunc(Hex(<<5, 5, 5, 5, 5, 5, 5, 5, 5, 5, 5, 5, 5, 5, 5, 5>>), W)

bmi_2d_y_mask(W) == Trunc(Hex(<<10, 10, 10, 10, 10, 10, 10, 10, 10, 10, 10, 10, 10, 10, 10, 10>>), W)

bmi_3d_x_mask(W) == Trunc(Hex(<<9, 2, 4, 9, 2, 4, 9, 2, 4, 9, 2, 4, 9, 2, 4, 9>>), W)

bmi_3d_y_mask(W) == Trunc(Hex(<<2, 4, 9, 2, 4, 9, 2, 4, 9, 2, 4, 9, 2, 4, 9, 2>>), W)

\* Variant: the z mask repeats the y mask
bmi_3d_z_mask_copy(W) == Trunc(Hex(<<2, 4, 9, 2, 4, 9, 2, 4, 9, 2, 4, 9, 2, 4, 9, 2>>), W)

bmi_3d_z_mask(W) == Trunc(Hex(<<4, 9, 2, 4, 9, 2, 4, 9, 2, 4, 9, 2, 4, 9, 2, 4>>), W)

\* ------------------------------------------------------------------------
\* BMI2 intrinsics emulation (morton.hpp 164-259)
\* ------------------------------------------------------------------------

\* The mask of the last scatter step and of the first gather step of each
\* emulation helper (morton.hpp 171/191, 183/203, 219/240, 232/252)
mask0x55555555 == Hex(<<5, 5, 5, 5, 5, 5, 5, 5>>)

mask0x5555555555555555 == Hex(<<5, 5, 5, 5, 5, 5, 5, 5, 5, 5, 5, 5, 5, 5, 5, 5>>)

mask0x09249249 == Hex(<<0, 9, 2, 4, 9, 2, 4, 9>>)

\* Variant: one hexadecimal digit of the mask mistyped
mask0x1249249249249249_typo == Hex(<<1, 2, 4, 9, 2, 4, 9, 2, 4, 9, 2, 4, 9, 2, 0, 9>>)

mask0x1249249249249249 == Hex(<<1, 2, 4, 9, 2, 4, 9, 2, 4, 9, 2, 4, 9, 2, 4, 9>>)

\* x = (x | (x << k)) & m
SpreadStep(x, k, m, W) == BitAnd(BitOr(x, Shl(x, k, W)), m)

\* x = (x ^ (x >> k)) & m
CompressStep(x, k, m) == BitAnd(BitXor(x, Shr(x, k)), m)

\* Variant: the third step shifts by 1 instead of 2
pdep0x55555555_shift(x) ==
    LET x1 == SpreadStep(x, 8, Hex(<<0, 0, 15, 15, 0, 0, 15, 15>>), 32)
        x2 == SpreadStep(x1, 4, Hex(<<0, 15, 0, 15, 0, 15, 0, 15>>), 32)
        x3 == SpreadStep(x2, 1, Hex(<<3, 3, 3, 3, 3, 3, 3, 3>>), 32)
        x4 == SpreadStep(x3, 1, Hex(<<5, 5, 5, 5, 5, 5, 5, 5>>), 32)
    IN  x4

pdep0x55555555(x) ==
    LET x1 == SpreadStep(x, 8, Hex(<<0, 0, 15, 15, 0, 0, 15, 15>>), 32)
        x2 == SpreadStep(x1, 4, Hex(<<0, 15, 0, 15, 0, 15, 0, 15>>), 32)
        x3 == SpreadStep(x2, 2, Hex(<<3, 3, 3, 3, 3, 3, 3, 3>>), 32)
        x4 == SpreadStep(x3, 1, mask0x55555555, 32)
    IN  x4

pdep0x5555555555555555(x) ==
    LET x1 == SpreadStep(x, 16, Hex(<<0, 0, 0, 0, 15, 15, 15, 15, 0, 0, 0, 0, 15, 15, 15, 15>>), 64)
        x2 == SpreadStep(x1, 8, Hex(<<0, 0, 15, 15, 0, 0, 15, 15, 0, 0, 15, 15, 0, 0, 15, 15>>), 64)
        x3 == SpreadStep(x2, 4, Hex(<<0, 15, 0, 15, 0, 15, 0, 15, 0, 15, 0, 15, 0, 15, 0, 15>>), 64)
        x4 == SpreadStep(x3, 2, Hex(<<3, 3, 3, 3, 3, 3, 3, 3, 3, 3, 3, 3, 3, 3, 3, 3>>), 64)
        x5 == SpreadStep(x4, 1, mask0x5555555555555555, 64)
    IN  x5

pext0x55555555(x) ==
    LET x0 == BitAnd(x, mask0x55555555)
        x1 == CompressStep(x0, 1, Hex(<<3, 3, 3, 3, 3, 3, 3, 3>>))
        x2 == CompressStep(x1, 2, Hex(<<0, 15, 0, 15, 0, 15, 0, 15>>))
        x3 == CompressStep(x2, 4, Hex(<<0, 0, 15, 15, 0, 0, 15, 15>>))
        x4 == CompressStep(x3, 8, Hex(<<0, 0, 0, 0, 15, 15, 15, 15>>))
    IN  x4

\* Variant: the last mask keeps 31 bits instead of 32
pext0x5555555555555555_short(x) ==
    LET x0 == BitAnd(x, mask0x5555555555555555)
        x1 == CompressStep(x0, 1, Hex(<<3, 3, 3, 3, 3, 3, 3, 3, 3, 3, 3, 3, 3, 3, 3, 3>>))
        x2 == CompressStep(x1, 2, Hex(<<0, 15, 0, 15, 0, 15, 0, 15, 0, 15, 0, 15, 0, 15, 0, 15>>))
        x3 == CompressStep(x2, 4, Hex(<<0, 0, 15, 15, 0, 0, 15, 15, 0, 0, 15, 15, 0, 0, 15, 15>>))
        x4 == CompressStep(x3, 8, Hex(<<0, 0, 0, 0, 15, 15, 15, 15, 0, 0, 0, 0, 15, 15, 15, 15>>))
        x5 == CompressStep(x4, 16, Hex(<<0, 0, 0, 0, 0, 0, 0, 0, 7, 15, 15, 15, 15, 15, 15, 15>>))
    IN  x5

pext0x5555555555555555(x) ==
    LET x0 == BitAnd(x, mask0x5555555555555555)
        x1 == CompressStep(x0, 1, Hex(<<3, 3, 3, 3, 3, 3, 3, 3, 3, 3, 3, 3, 3, 3, 3, 3>>))
        x2 == CompressStep(x1, 2, Hex(<<0, 15, 0, 15, 0, 15, 0, 15, 0, 15, 0, 15, 0, 15, 0, 15>>))
        x3 == CompressStep(x2, 4, Hex(<<0, 0, 15, 15, 0, 0, 15, 15, 0, 0, 15, 15, 0, 0, 15, 15>>))
        x4 == CompressStep(x3, 8, Hex(<<0, 0, 0, 0, 15, 15, 15, 15, 0, 0, 0, 0, 15, 15, 15, 15>>))
        x5 == CompressStep(x4, 16, Hex(<<0, 0, 0, 0, 0, 0, 0, 0, 15, 15, 15, 15, 15, 15, 15, 15>>))
    IN  x5

\* Variant: the third step shifts by 2 instead of 4
pdep0x92492492_shift(x) ==
    LET x1 == SpreadStep(x, 16, Hex(<<0, 3, 0, 0, 0, 0, 15, 15>>), 32)
        x2 == SpreadStep(x1, 8, Hex(<<0, 3, 0, 0, 15, 0, 0, 15>>), 32)
        x3 == SpreadStep(x2, 2, Hex(<<0, 3, 0, 12, 3, 0, 12, 3>>), 32)
        x4 == SpreadStep(x3, 2, mask0x09249249, 32)
    IN  x4

pdep0x92492492(x) ==
    LET x1 == SpreadStep(x, 16, Hex(<<0, 3, 0, 0, 0, 0, 15, 15>>), 32)
        x2 == SpreadStep(x1, 8, Hex(<<0, 3, 0, 0, 15, 0, 0, 15>>), 32)
        x3 == SpreadStep(x2, 4, Hex(<<0, 3, 0, 12, 3, 0, 12, 3>>), 32)
        x4 == SpreadStep(x3, 2, mask0x09249249, 32)
    IN  x4

pdep0x9249249249249249(x) ==
    LET x1 == SpreadStep(x, 32, Hex(<<0, 0, 1, 15, 0, 0, 0, 0, 0, 0, 0, 0, 15, 15, 15, 15>>), 64)
        x2 == SpreadStep(x1, 16, Hex(<<0, 0, 1, 15, 0, 0, 0, 0, 15, 15, 0, 0, 0, 0, 15, 15>>), 64)
        x3 == SpreadStep(x2, 8, Hex(<<1, 0, 0, 15, 0, 0, 15, 0, 0, 15, 0, 0, 15, 0, 0, 15>>), 64)
        x4 == SpreadStep(x3, 4, Hex(<<1, 0, 12, 3, 0, 12, 3, 0, 12, 3, 0, 12, 3, 0, 12, 3>>), 64)
        x5 == SpreadStep(x4, 2, mask0x1249249249249249, 64)
    IN  x5

pext0x92492492(x) ==
    LET x0 == BitAnd(x, mask0x09249249)
        x1 == CompressStep(x0, 2, Hex(<<0, 3, 0, 12, 3, 0, 12, 3>>))
        x2 == CompressStep(x1, 4, Hex(<<0, 3, 0, 0, 15, 0, 0, 15>>))
        x3 == CompressStep(x2, 8, Hex(<<0, 3, 0, 0, 0, 0, 15, 15>>))
        x4 == CompressStep(x3, 16, Hex(<<0, 0, 0, 0, 0, 3, 15, 15>>))
    IN  x4

\* Variant: the last mask keeps 20 bits instead of 21
pext0x9249249249249249_short(x) ==
    LET x0 == BitAnd(x, Hex(<<1, 2, 4, 9, 2, 4, 9, 2, 4, 9, 2, 4, 9, 2, 4, 9>>))
        x1 == CompressStep(x0, 2, Hex(<<1, 0, 12, 3, 0, 12, 3, 0, 12, 3, 0, 12, 3, 0, 12, 3>>))
        x2 == CompressStep(x1, 4, Hex(<<1, 0, 0, 15, 0, 0, 15, 0, 0, 15, 0, 0, 15, 0, 0, 15>>))
        x3 == CompressStep(x2, 8, Hex(<<0, 0, 1, 15, 0, 0, 0, 0, 15, 15, 0, 0, 0, 0, 15, 15>>))
        x4 == CompressStep(x3, 16, Hex(<<0, 0, 1, 15, 0, 0, 0, 0, 0, 0, 0, 0, 15, 15, 15, 15>>))
        x5 == CompressStep(x4, 32, Hex(<<0, 0, 0, 0, 0, 0, 0, 0, 0, 0, 0, 15, 15, 15, 15, 15>>))
    IN  x5

pext0x9249249249249249(x) ==
    LET x0 == BitAnd(x, mask0x1249249249249249)
        x1 == CompressStep(x0, 2, Hex(<<1, 0, 12, 3, 0, 12, 3, 0, 12, 3, 0, 12, 3, 0, 12, 3>>))
        x2 == CompressStep(x1, 4, Hex(<<1, 0, 0, 15, 0, 0, 15, 0, 0, 15, 0, 0, 15, 0, 0, 15>>))
        x3 == CompressStep(x2, 8, Hex(<<0, 0, 1, 15, 0, 0, 0, 0, 15, 15, 0, 0, 0, 0, 15, 15>>))
        x4 == CompressStep(x3, 16, Hex(<<0, 0, 1, 15, 0, 0, 0, 0, 0, 0, 0, 0, 15, 15, 15, 15>>))
        x5 == CompressStep(x4, 32, Hex(<<0, 0, 0, 0, 0, 0, 0, 0, 0, 0, 1, 15, 15, 15, 15, 15>>))
    IN  x5


\* ------------------------------------------------------------------------
\* Morton encoding/decoding, BMI2 path (morton.hpp 117-156)
\* A coordinate tuple t is <<x, y>> or <<x, y, z>>.
\* ------------------------------------------------------------------------

bmi_mortonEncode2D(W, t) ==
    BitOr(pdep(t[1], bmi_2d_x_mask(W)), pdep(t[2], bmi_2d_y_mask(W)))

bmi_mortonEncode3D(W, t) ==
    BitOr(BitOr(pdep(t[1], bmi_3d_x_mask(W)), pdep(t[2], bmi_3d_y_mask(W))),
          pdep(t[3], bmi_3d_z_mask(W)))

bmi_mortonDecode2D(W, morton) ==
    <<pext(morton, bmi_2d_x_mask(W)), pext(morton, bmi_2d_y_mask(W))>>

bmi_mortonDecode3D(W, morton) ==
    <<pext(morton, bmi_3d_x_mask(W)), pext(morton, bmi_3d_y_mask(W)),
      pext(morton, bmi_3d_z_mask(W))>>

\* ------------------------------------------------------------------------
\* Morton encoding/decoding, emulation path (morton.hpp 265-336)
\* ------------------------------------------------------------------------

\* Variant: y is shifted by 3 instead of 1
emu_mortonEncode2D_u32_wide(t) ==
    BitOr(pdep0x55555555(t[1]), Shl(pdep0x55555555(t[2]), 3, 32))

emu_mortonEncode2D_u32(t) ==
    BitOr(pdep0x55555555(t[1]), Shl(pdep0x55555555(t[2]), 1, 32))

emu_mortonEncode2D_u64(t) ==
    BitOr(pdep0x5555555555555555(t[1]), Shl(pdep0x5555555555555555(t[2]), 1, 64))

emu_mortonDecode2D_u32(morton) ==
    <<pext0x55555555(morton), pext0x55555555(Shr(morton, 1))>>

emu_mortonDecode2D_u64(morton) ==
    <<pext0x5555555555555555(morton), pext0x5555555555555555(Shr(morton, 1))>>

\* Variant: the y scatter is not shifted to its axis
emu_mortonEncode3D_u32_noshift(t) ==
    BitOr(BitOr(pdep0x92492492(t[1]), pdep0x92492492(t[2])),
          Shl(pdep0x92492492(t[3]), 2, 32))

emu_mortonEncode3D_u32(t) ==
    BitOr(BitOr(pdep0x92492492(t[1]), Shl(pdep0x92492492(t[2]), 1, 32)),
          Shl(pdep0x92492492(t[3]), 2, 32))

emu_mortonEncode3D_u64(t) ==
    BitOr(BitOr(pdep0x9249249249249249(t[1]),
                Shl(pdep0x9249249249249249(t[2]), 1, 64)),
          Shl(pdep0x9249249249249249(t[3]), 2, 64))

emu_mortonDecode3D_u32(morton) ==
    <<pext0x92492492(morton), pext0x92492492(Shr(morton, 1)),
      pext0x92492492(Shr(morton, 2))>>

emu_mortonDecode3D_u64(morton) ==
    <<pext0x9249249249249249(morton), pext0x9249249249249249(Shr(morton, 1)),
      pext0x9249249249249249(Shr(morton, 2))>>

\* ------------------------------------------------------------------------
\* Overload / build selection: BMI2_SUPPORTED && !COMPILING_DEVICE picks the
\* BMI2 path, otherwise the emulation is compiled (morton.hpp 32-43, 61, 158)
\* ------------------------------------------------------------------------

Paths == {"bmi2", "emulation"}

mortonEncode(p, W, D, t) ==
    IF p = "bmi2"
    THEN IF D = 2 THEN bmi_mortonEncode2D(W, t) ELSE bmi_mortonEncode3D(W, t)
    ELSE IF D = 2
         THEN IF W = 32 THEN emu_mortonEncode2D_u32(t) ELSE emu_mortonEncode2D_u64(t)
         ELSE IF W = 32 THEN emu_mortonEncode3D_u32(t) ELSE emu_mortonEncode3D_u64(t)

mortonDecode(p, W, D, morton) ==
    IF p = "bmi2"
    THEN IF D = 2 THEN bmi_mortonDecode2D(W, morton) ELSE bmi_mortonDecode3D(W, morton)
    ELSE IF D = 2
         THEN IF W = 32 THEN emu_mortonDecode2D_u32(morton)
                        ELSE emu_mortonDecode2D_u64(morton)
         ELSE IF W = 32 THEN emu_mortonDecode3D_u32(morton)
                        ELSE emu_mortonDecode3D_u64(morton)

\* ------------------------------------------------------------------------
\* Contract checks (assert.hpp 43-77, morton.hpp 122-134, 227, 269-315)
\* ------------------------------------------------------------------------

AxisName == <<"x", "y", "z">>

\* Variant: every entry check compares against the 2D maximum
EntryChecks_2d(line, W, D, t) ==
    [i \in 1 .. D |->
        [line |-> line + (i - 1), axis |-> AxisName[i],
         holds |-> LessEq(t[i], max_2d_morton_coord(W))]]

\* The ASSERT_ASSUME statements at the head of integer mortonEncode, in
\* program order; line is the source line of the first one.
EntryChecks(line, W, D, t) ==
    [i \in 1 .. D |->
        [line |-> line + (i - 1), axis |-> AxisName[i],
         holds |-> LessEq(t[i], max_morton_coord(W, D))]]

\* The ASSERT_ASSUME inside pdep0x9249249249249249, once per call of the
\* helper (x, then y, then z), reached after the entry checks
HelperChecks(t) ==
    [i \in 1 .. 3 |->
        [line |-> 227, axis |-> "x",
         holds |-> LessEq(t[i], max_3d_morton_coord(64))]]

\* All contract checks one integer mortonEncode call evaluates, in order
EncodeChecks(p, W, D, t) ==
    IF p = "bmi2"
    THEN EntryChecks(IF D = 2 THEN 122 ELSE 132, W, D, t)
    ELSE IF D = 2
         THEN EntryChecks(IF W = 32 THEN 269 ELSE 278, W, D, t)
         ELSE IF W = 32 THEN EntryChecks(303, W, D, t)
                        ELSE EntryChecks(313, W, D, t) \o HelperChecks(t)

Failing(checks) == {k \in 1 .. Len(checks) : ~checks[k].holds}

\* ASSERT(cond): the first failing condition calls failedAssert
FirstFailing(checks) == checks[MinOf(Failing(checks))]

\* failedAssert(file, line, msg): the diagnostic printed before abort()
failedAssert(check) == <<[file |-> "morton.hpp", line |-> check.line, axis |-> check.axis]>>


\* ------------------------------------------------------------------------
\* Floating point (IEEE 754 binary32 / binary64, round to nearest even)
\* A float is [neg, num, exp] with value (-1)^neg * num * 2^exp, num an
\* unbounded natural number held as the set of its set bit positions.  The
\* exponent range is not modelled: every value used lies in the normal range.
\* ------------------------------------------------------------------------

FloatTypes == {"float", "double"}

\* std::numeric_limits<T>::digits
Digits(T) == IF T = "float" THEN 24 ELSE 53

\* n << k and n >> k without a word width
Up(n, k) == {q + k : q \in n}

Down(n, k) == {q - k : q \in {r \in n : r >= k}}

\* The positions a carry or borrow reaches: it leaves each position of
\* from, enters the next one, and runs on up to the first position of stop
\* above it (top + 1 if there is none)
Ripple(from, stop, top) ==
    UNION {(g + 1) .. MinOf({k \in (g + 1) .. top : k \in stop} \cup {top + 1}) :
               g \in from}

\* a + b: a carry is generated where both bits are set and stops at the
\* first position where neither is
Plus(a, b) ==
    IF a = {} THEN b
    ELSE IF b = {} THEN a
    ELSE LET top == MaxOf(a \cup b)
         IN  BitXor(BitXor(a, b),
                    Ripple(BitAnd(a, b), (0 .. top) \ (a \cup b), top))

\* a - b for a >= b: a borrow is generated where only b's bit is set and
\* stops at the first position where only a's bit is
Minus(a, b) ==
    IF b = {} THEN a
    ELSE BitXor(BitXor(a, b), Ripple(b \ a, a \ b, MaxOf(a)))

\* a * b: a * (2^n - 1) is (a << n) - a, any other product is the sum of
\* the shifted copies of a
RECURSIVE Times(_, _)
Times(a, b) ==
    IF a = {} \/ b = {} THEN {}
    ELSE IF b = 0 .. MaxOf(b) THEN Minus(Up(a, MaxOf(b) + 1), a)
    ELSE LET k == MinOf(b) IN Plus(Up(a, k), Times(a, b \ {k}))

\* Long division of n by d from bit position pos down: <<quotient, remainder>>
RECURSIVE LongDiv(_, _, _, _, _)
LongDiv(n, d, pos, quo, rem) ==
    IF pos < 0 THEN <<quo, rem>>
    ELSE LET r == Up(rem, 1) \cup (IF pos \in n THEN {0} ELSE {})
         IN  IF LessEq(d, r)
             THEN LongDiv(n, d, pos - 1, quo \cup {pos}, Minus(r, d))
             ELSE LongDiv(n, d, pos - 1, quo, r)

FloatZero == [neg |-> FALSE, num |-> {}, exp |-> 0]

FloatOne == [neg |-> FALSE, num |-> {0}, exp |-> 0]

\* The value num * 2^exp rounded to a significand of prec bits
RoundTo(neg, num, exp, prec) ==
    IF num = {} THEN FloatZero
    ELSE LET drop == MaxOf(num) + 1 - prec
         IN  IF drop <= 0 THEN [neg |-> neg, num |-> num, exp |-> exp]
             ELSE LET kept == Down(num, drop)
                      half == (drop - 1) \in num
                      sticky == \E q \in num : q < drop - 1
                      up == half /\ (sticky \/ 0 \in kept)
                  IN  [neg |-> neg,
                       num |-> IF up THEN Plus(kept, {0}) ELSE kept,
                       exp |-> exp + drop]

\* static_cast<T>(u) of an unsigned integer
FromUnsigned(u, T) == RoundTo(FALSE, u, 0, Digits(T))

\* a * b in T
FloatMul(a, b, T) ==
    RoundTo(a.neg # b.neg, Times(a.num, b.num), a.exp + b.exp, Digits(T))

\* a / b in T, b # 0: a is scaled so that the quotient has Digits(T) + 2 bits
\* at least, and a nonzero remainder is kept as a sticky bit below them.  The
\* long division starts below the leading bits of the dividend that are
\* fewer than the divisor's and so give no quotient bit
FloatDiv(a, b, T) ==
    IF a.num = {} THEN FloatZero
    ELSE LET want == Digits(T) + 2 + MaxOf(b.num) - MaxOf(a.num)
             k == IF want > 0 THEN want ELSE 0
             n == Up(a.num, k)
             low == MaxOf(n) - MaxOf(b.num)
             qr == LongDiv(n, b.num, low, {}, Down(n, low + 1))
             q == Up(qr[1], 1) \cup (IF qr[2] = {} THEN {} ELSE {0})
         IN  RoundTo(a.neg # b.neg, q, a.exp - b.exp - k - 1, Digits(T))

\* static_cast<U>(f): truncation toward zero.  The result is <<u>>, or <<>>
\* when the truncated value is not representable in U (undefined behaviour)
ToUnsigned(f, W) ==
    LET mag == IF f.exp >= 0 THEN Up(f.num, f.exp) ELSE Down(f.num, 0 - f.exp)
    IN  IF mag = {} THEN <<{}>>
        ELSE IF f.neg \/ MaxOf(mag) >= W THEN <<>>
        ELSE <<mag>>

\* a <= b on floats
FloatLessEq(a, b) ==
    LET m == IF a.exp < b.exp THEN a.exp ELSE b.exp
        x == Up(a.num, a.exp - m)
        y == Up(b.num, b.exp - m)
    IN  IF a.neg /\ x # {}
        THEN (~(b.neg /\ y # {})) \/ LessEq(y, x)
        ELSE (~(b.neg /\ y # {})) /\ LessEq(x, y)

\* ------------------------------------------------------------------------
\* Morton encoding/decoding of floats normalized to [0,1] (morton.hpp 340-402)
\* ------------------------------------------------------------------------

\* static_assert(!(std::same_as<float, T> && std::same_as<uint64_t, U>)):
\* present in the 2D mortonEncode<U, T> only (morton.hpp 353-354)
StaticAssertHolds(W, D, T) == ~(D = 2 /\ T = "float" /\ W = 64)

\* The ASSERT_ASSUME statements at the head of mortonEncode<U, T>, in program
\* order: 0 <= x, 0 <= y[, 0 <= z], x <= 1, y <= 1[, z <= 1]
FloatEntryChecks(D, v) ==
    [k \in 1 .. 2 * D |->
        IF k <= D
        THEN [line |-> (IF D = 2 THEN 349 ELSE 378) + (k - 1), axis |-> AxisName[k],
              holds |-> FloatLessEq(FloatZero, v[k])]
        ELSE [line |-> (IF D = 2 THEN 349 ELSE 378) + (k - 1), axis |-> AxisName[k - D],
              holds |-> FloatLessEq(v[k - D], FloatOne)]]

\* Variant: the scale is the number of steps, max + 1
Quantize_steps(x, W, D, T) ==
    ToUnsigned(FloatMul(x, FromUnsigned(Plus(max_morton_coord(W, D), {0}), T), T), W)

\* static_cast<U>(x * max_2d_morton_coord<U>): the maximum is converted to T,
\* the product is taken in T and truncated
Quantize(x, W, D, T) ==
    ToUnsigned(FloatMul(x, FromUnsigned(max_morton_coord(W, D), T), T), W)

\* Variant: the 3D overload divides by the 2D maximum
Normalize_2d(x_m, W, D, T) ==
    FloatDiv(FromUnsigned(x_m, T), FromUnsigned(max_2d_morton_coord(W), T), T)

\* static_cast<T>(x_m) / static_cast<T>(max_2d_morton_coord<U>)
Normalize(x_m, W, D, T) ==
    FloatDiv(FromUnsigned(x_m, T), FromUnsigned(max_morton_coord(W, D), T), T)

\* mortonDecode<U, T>(morton, x, y[, z])
mortonDecodeFloat(p, W, D, T, morton) ==
    LET m == mortonDecode(p, W, D, morton)
    IN  [i \in 1 .. D |-> Normalize(m[i], W, D, T)]

\* ------------------------------------------------------------------------
\* Arguments drawn for the calls
\* ------------------------------------------------------------------------

\* The subsets of S with at most n elements
RECURSIVE UpTo(_, _)
UpTo(S, n) ==
    IF n = 0 THEN {{}}
    ELSE LET smaller == UpTo(S, n - 1)
         IN  smaller \cup {F \cup {e} : F \in smaller, e \in S}

\* Coordinate bits that are flipped: every in-range bit, the first bit above
\* the range and the top bit of the word
FlipPos(W, D) == (0 .. (W \div D)) \cup {W - 1}

\* Coordinate bits that are flipped together: the two lowest bits, the top
\* in-range bit, the first bit above the range and the top bit of the word
EdgePos(W, D) == {0, 1, W \div D - 1, W \div D, W - 1}

\* Code bits that are flipped together: the three lowest and the three
\* highest bits of a 32-bit and of a W-bit word
EdgeBits(W) == {0, 1, 2, 29, 30, 31, W - 3, W - 2, W - 1}

\* Coordinate tuples: the all-zero, the all-maximum and an alternating-bit
\* tuple with one bit flipped (for MaxOnes >= 1) or with at most MaxOnes edge
\* bits flipped, the small values of test/math/morton.cpp, and the all-ones
\* words
EncodeInputs(W, D) ==
    LET flips == UpTo((1 .. D) \X FlipPos(W, D), IF MaxOnes < 1 THEN MaxOnes ELSE 1) \cup
                 UpTo((1 .. D) \X EdgePos(W, D), MaxOnes)
        grounds == {[i \in 1 .. D |-> Zero], [i \in 1 .. D |-> max_morton_coord(W, D)],
                    [i \in 1 .. D |-> BitAnd(Hex(<<5, 5, 5, 5, 5, 5, 5, 5, 5, 5, 5, 5, 5, 5, 5, 5>>),
                                             max_morton_coord(W, D))]}
        flipped == {[i \in 1 .. D |-> BitXor(g[i], {f[2] : f \in {h \in F : h[1] = i}})] :
                        g \in grounds, F \in flips}
        small == [1 .. D -> {Lit(0), Lit(1), Lit(2), Lit(3)}]
    IN  flipped \cup small \cup {[i \in 1 .. D |-> AllOnes(W)]}

\* Codes: the all-zero word, the all-ones word and a mixed pattern with one
\* bit flipped (for MaxOnes >= 1) or with at most MaxOnes edge bits flipped,
\* and the codes of test/math/morton.cpp
DecodeInputs(W) ==
    LET flips == UpTo(BitPos(W), IF MaxOnes < 1 THEN MaxOnes ELSE 1) \cup
                 UpTo(EdgeBits(W), MaxOnes)
        flipped == {BitXor(g, F) : g \in {Zero, AllOnes(W), Hex(<<12, 3, 5, 10, 12, 3, 5, 10>>)},
                                   F \in flips}
        small == {Lit(n) : n \in {0, 1, 2, 3, 4, 5, 6, 7, 12, 15, 56, 63}}
        masks == {Trunc(Hex(<<5, 5, 5, 5, 5, 5, 5, 5, 5, 5, 5, 5, 5, 5, 5, 5>>), W),
                  Trunc(Hex(<<10, 10, 10, 10, 10, 10, 10, 10, 10, 10, 10, 10, 10, 10, 10, 10>>), W),
                  Hex(<<3, 15, 15, 15, 15, 15, 15, 15>>),
                  Trunc(Hex(<<7, 15, 15, 15, 15, 15, 15, 15, 15, 15, 15, 15, 15, 15, 15, 15>>), W)}
    IN  flipped \cup small \cup masks

\* The float of T with the same value and a significand of exactly Digits(T) bits
Normal(f, T) ==
    LET sh == Digits(T) - 1 - MaxOf(f.num)
    IN  [neg |-> f.neg, num |-> Up(f.num, sh), exp |-> f.exp - sh]

\* The next float of T above and below a positive float
Succ(f, T) == LET n == Normal(f, T) IN [n EXCEPT !.num = Plus(n.num, {0})]

Pred(f, T) ==
    LET n == Normal(f, T)
    IN  IF n.num = {Digits(T) - 1}
        THEN [neg |-> n.neg, num |-> 0 .. (Digits(T) - 1), exp |-> n.exp - 1]
        ELSE [n EXCEPT !.num = Minus(n.num, {0})]

\* 1/2, 2, -1/2
FloatHalf == [neg |-> FALSE, num |-> {0}, exp |-> -1]

FloatTwo == [neg |-> FALSE, num |-> {0}, exp |-> 1]

FloatMinusHalf == [neg |-> TRUE, num |-> {0}, exp |-> -1]

\* Values at the ends of [0,1] and just outside it
EdgeFloats(T) ==
    {FloatZero, FloatOne, FloatHalf, Pred(FloatOne, T),
     Succ(FloatOne, T), FloatTwo, FloatMinusHalf}

\* Floats next to the quantization steps k / max, for k = 1, 2, the top axis
\* bit and every k = 2^j - 1: the quotient in T, its predecessor and its
\* successor
StepFloats(W, D, T) ==
    LET ks == {{0}, {1}, {W \div D - 1}} \cup {0 .. (j - 1) : j \in 2 .. (W \div D)}
        qs == {Normalize(k, W, D, T) : k \in ks}
    IN  UNION {{q, Pred(q, T), Succ(q, T)} : q \in qs}

\* Float coordinate tuples: the same value on every axis, and an edge value
\* on one axis with 0 on the others
FloatInputs(W, D, T) ==
    {[i \in 1 .. D |-> v] : v \in EdgeFloats(T) \cup StepFloats(W, D, T)} \cup
    {[i \in 1 .. D |-> IF i = a THEN v ELSE FloatZero] : a \in 1 .. D, v \in EdgeFloats(T)}

\* Codes decoded to floats: the codes of TEST_CASE(mortonDecodeFloat), the
\* x-axis masks, every single-bit code and the codes with one of the lowest or highest three
\* bits clear
FloatDecodeInputs(W) ==
    {Zero, AllOnes(W),
     Trunc(Hex(<<5, 5, 5, 5, 5, 5, 5, 5, 5, 5, 5, 5, 5, 5, 5, 5>>), W),
     Trunc(Hex(<<10, 10, 10, 10, 10, 10, 10, 10, 10, 10, 10, 10, 10, 10, 10, 10>>), W),
     Hex(<<3, 15, 15, 15, 15, 15, 15, 15>>),
     Trunc(Hex(<<7, 15, 15, 15, 15, 15, 15, 15, 15, 15, 15, 15, 15, 15, 15, 15>>), W),
     Hex(<<0, 9, 2, 4, 9, 2, 4, 9>>),
     Trunc(Hex(<<1, 2, 4, 9, 2, 4, 9, 2, 4, 9, 2, 4, 9, 2, 4, 9>>), W)} \cup
    {{b} : b \in BitPos(W)} \cup
    {AllOnes(W) \ {b} : b \in {0, 1, 2, W - 3, W - 2, W - 1}}

\* ------------------------------------------------------------------------
\* Concurrent callers
\* ------------------------------------------------------------------------

\* The number of concurrent callers
MaxThreads == 2

Threads == 1 .. MaxThreads

\* A thread with no call in flight
NoCall == [pc |-> "idle", op |-> "none", args |-> <<>>, step |-> 0, out |-> <<>>]

\* ------------------------------------------------------------------------
\* Logger settings (settings.hpp 22-28, logger.hpp 32-39, 54)
\* ------------------------------------------------------------------------

default_level == 3

default_timestamped == TRUE

default_colorized == TRUE

default_exit_on_error == TRUE

buffer_size == 256

\* char buffer[buffer_size] = {0}
EmptyBuffer == [i \in 1 .. buffer_size |-> "NUL"]

\* namespace levels
levels_off == 0

levels_error == 1

levels_warn == 2

levels_info == 3

levels_debug == 4

\* ------------------------------------------------------------------------
\* State
\* ------------------------------------------------------------------------

VARIABLES
    path,     \* "bmi2" or "emulation": which realization the build compiled
    asserts,  \* JUNO_ENABLE_ASSERTS
    W,        \* width of U in bits
    D,        \* dimensionality of the overload under test
    pc,       \* "idle", "encoded", "aborted", "decoded", "roundtrip", "reencoded"
    coords,   \* arguments of the last mortonEncode call, <<>> if none
    morton,   \* <<code>>: value returned by mortonEncode or passed to mortonDecode
    outs,     \* coordinates written by the last mortonDecode call, <<>> if none
    recode,   \* <<code>>: value returned by encoding the decoded coordinates
    diag,     \* <<diagnostic>> printed by failedAssert, <<>> if none
    ftype,    \* T of the last mortonEncode<U, T> / mortonDecode<U, T> call, "" if none
    fcoords,  \* float arguments of the last mortonEncode<U, T> call, <<>> if none
    fouts,    \* floats written by the last mortonDecode<U, T> call, <<>> if none
    calls,    \* per thread: the integer call in flight, its arguments and what it wrote
    level,          \* juno::settings::logger::level
    timestamped,    \* juno::settings::logger::timestamped
    colorized,      \* juno::settings::logger::colorized
    exit_on_error,  \* juno::settings::logger::exit_on_error
    start_time,     \* juno::logger::start_time, in milliseconds
    now,            \* the reading of Clock::now(), in milliseconds
    buffer,         \* juno::logger::buffer and the memory written behind it
    status,         \* "running", "exited" after exit(1), "aborted", "crashed"
    last,           \* the last logger operation: its name, message level and arguments
    emitted         \* <<[stream, text, result]>> of the last operation's fprintf, or <<>>

vars == <<path, asserts, W, D, pc, coords, morton, outs, recode, diag,
          ftype, fcoords, fouts, calls,
          level, timestamped, colorized, exit_on_error, start_time, now,
          buffer, status, last, emitted>>

settings == <<level, timestamped, colorized, exit_on_error>>

logger == <<settings, start_time, now, buffer, status, last, emitted>>

codec == <<pc, coords, morton, outs, recode, diag, ftype, fcoords, fouts>>

floats == <<ftype, fcoords, fouts>>

build == <<path, asserts, W, D>>

Init ==
    /\ path \in Paths
    /\ asserts \in BOOLEAN
    /\ W \in Widths
    /\ D \in Dims
    /\ pc = "idle"
    /\ coords = <<>>
    /\ morton = <<>>
    /\ outs = <<>>
    /\ recode = <<>>
    /\ diag = <<>>
    /\ ftype = ""
    /\ fcoords = <<>>
    /\ fouts = <<>>
    /\ calls = [t \in Threads |-> NoCall]
    /\ level = default_level
    /\ timestamped = default_timestamped
    /\ colorized = default_colorized
    /\ exit_on_error = default_exit_on_error
    /\ start_time = 0
    /\ now = 0
    /\ buffer = EmptyBuffer
    /\ status = "running"
    /\ last = [op |-> "none", msg_level |-> 0, args |-> <<>>]
    /\ emitted = <<>>

\* ASSUME(expr) with expr false is undefined behaviour: the value returned is
\* whatever the optimized code computes, with or without use of the assumption
AssumedTuple(t) == [i \in 1 .. D |-> BitAnd(t[i], max_morton_coord(W, D))]

UndefinedResults(t) ==
    {mortonEncode(path, W, D, t), mortonEncode(path, W, D, AssumedTuple(t)),
     Zero, AllOnes(W)}

\* Variant: ASSERT_ASSUME expands to ASSERT whatever JUNO_ENABLE_ASSERTS is
EncodeOutcome_checked(t) ==
    LET checks == EncodeChecks(path, W, D, t)
    IN  IF Failing(checks) = {}
        THEN <<FALSE, {mortonEncode(path, W, D, t)}, <<>> >>
        ELSE <<TRUE, {}, failedAssert(FirstFailing(checks))>>

\* Outcome of one integer mortonEncode(t) call: <<halted, results, diagnostic>>
EncodeOutcome(t) ==
    LET checks == EncodeChecks(path, W, D, t)
    IN  IF Failing(checks) = {}
        THEN <<FALSE, {mortonEncode(path, W, D, t)}, <<>> >>
        ELSE IF asserts
             THEN <<TRUE, {}, failedAssert(FirstFailing(checks))>>
             ELSE <<FALSE, UndefinedResults(t), <<>> >>

\* mortonEncode(x, y[, z]) called by the user
EncodeCall ==
    /\ pc = "idle"
    /\ \E t \in EncodeInputs(W, D) :
         LET o == EncodeOutcome(t)
         IN  /\ coords' = t
             /\ diag' = o[3]
             /\ IF o[1]
                THEN pc' = "aborted" /\ morton' = <<>>
                ELSE \E c \in o[2] : pc' = "encoded" /\ morton' = <<c>>
    /\ UNCHANGED <<build, outs, recode, floats, calls, logger>>

\* mortonDecode(code, x, y[, z]) applied to the code just returned
DecodeResult ==
    /\ pc = "encoded"
    /\ outs' = mortonDecode(path, W, D, morton[1])
    /\ pc' = "roundtrip"
    /\ UNCHANGED <<build, coords, morton, recode, diag, floats, calls, logger>>

\* mortonDecode(code, x, y[, z]) called by the user
DecodeCall ==
    /\ pc = "idle"
    /\ \E c \in DecodeInputs(W) :
         /\ morton' = <<c>>
         /\ outs' = mortonDecode(path, W, D, c)
    /\ pc' = "decoded"
    /\ UNCHANGED <<build, coords, recode, diag, floats, calls, logger>>

\* mortonEncode applied to the coordinates just decoded
EncodeResult ==
    /\ pc = "decoded"
    /\ LET o == EncodeOutcome(outs)
       IN  /\ coords' = outs
           /\ diag' = o[3]
           /\ IF o[1]
              THEN pc' = "aborted" /\ recode' = <<>>
              ELSE \E c \in o[2] : pc' = "reencoded" /\ recode' = <<c>>
    /\ UNCHANGED <<build, morton, outs, floats, calls, logger>>

\* Outcome of one mortonEncode<U, T>(v) call:
\* <<halted, quantized coordinates, results, diagnostic>>
EncodeFloatOutcome(T, v) ==
    LET checks == FloatEntryChecks(D, v)
        q == [i \in 1 .. D |-> Quantize(v[i], W, D, T)]
    IN  IF Failing(checks) # {}
        THEN IF asserts
             THEN <<TRUE, <<>>, {}, failedAssert(FirstFailing(checks))>>
             ELSE <<FALSE, <<>>, {Zero, AllOnes(W)}, <<>> >>
        ELSE IF \E i \in 1 .. D : q[i] = <<>>
             THEN <<FALSE, <<>>, {Zero, AllOnes(W)}, <<>> >>
             ELSE LET t == [i \in 1 .. D |-> q[i][1]]
                      o == EncodeOutcome(t)
                  IN  <<o[1], t, o[2], o[3]>>

\* mortonEncode<U, T>(x, y[, z]) called by the user; the call exists only
\* if the instantiation compiles
EncodeFloatCall ==
    /\ pc = "idle"
    /\ \E T \in FloatTypes :
         /\ StaticAssertHolds(W, D, T)
         /\ \E v \in FloatInputs(W, D, T) :
              LET o == EncodeFloatOutcome(T, v)
              IN  /\ ftype' = T
                  /\ fcoords' = v
                  /\ coords' = o[2]
                  /\ diag' = o[4]
                  /\ IF o[1]
                     THEN /\ pc' = (IF o[2] = <<>> THEN "faborted" ELSE "aborted")
                          /\ morton' = <<>>
                     ELSE \E c \in o[3] : pc' = "fencoded" /\ morton' = <<c>>
    /\ UNCHANGED <<build, outs, recode, fouts, calls, logger>>

\* mortonDecode<U, T>(code, x, y[, z]) applied to the code just returned
DecodeFloatResult ==
    /\ pc = "fencoded"
    /\ fouts' = mortonDecodeFloat(path, W, D, ftype, morton[1])
    /\ outs' = mortonDecode(path, W, D, morton[1])
    /\ pc' = "froundtrip"
    /\ UNCHANGED <<build, coords, morton, recode, diag, ftype, fcoords, calls, logger>>

\* mortonDecode<U, T>(code, x, y[, z]) called by the user
DecodeFloatCall ==
    /\ pc = "idle"
    /\ \E T \in FloatTypes : \E c \in FloatDecodeInputs(W) :
         /\ ftype' = T
         /\ morton' = <<c>>
         /\ outs' = mortonDecode(path, W, D, c)
         /\ fouts' = mortonDecodeFloat(path, W, D, T, c)
    /\ pc' = "fdecoded"
    /\ UNCHANGED <<build, coords, recode, diag, fcoords, calls, logger>>

\* The caller drops the results; the codec keeps no state between calls
Return ==
    /\ pc \in {"encoded", "decoded", "roundtrip", "reencoded",
              "fencoded", "fdecoded", "froundtrip"}
    /\ pc' = "idle"
    /\ coords' = <<>>
    /\ morton' = <<>>
    /\ outs' = <<>>
    /\ recode' = <<>>
    /\ diag' = <<>>
    /\ ftype' = ""
    /\ fcoords' = <<>>
    /\ fouts' = <<>>
    /\ UNCHANGED <<build, calls, logger>>

\* A program that calls the integer overloads
Next ==
    \/ EncodeCall
    \/ DecodeResult
    \/ DecodeCall
    \/ EncodeResult
    \/ Return

Spec == Init /\ [][Next]_vars

\* A program that calls the floating-point overloads
FloatNext ==
    \/ EncodeFloatCall
    \/ DecodeFloatResult
    \/ DecodeFloatCall
    \/ Return

FloatSpec == Init /\ [][FloatNext]_vars

\* ------------------------------------------------------------------------
\* Concurrent integer calls.  mortonEncode takes its coordinates by value and
\* evaluates pdep(x) | pdep(y) << 1 [| pdep(z) << 2] one operand after the
\* other; mortonDecode writes x, then y[, then z] through the caller's
\* references.  Each thread passes its own arguments and output objects.
\* ------------------------------------------------------------------------

\* The tuple with every axis but i zero
OnlyAxis(t, i) == [j \in 1 .. D |-> IF j = i THEN t[j] ELSE Zero]

\* Arguments of the concurrent calls: in-range tuples, and codes
ThreadEncodeInputs ==
    {[i \in 1 .. D |-> max_morton_coord(W, D)], [i \in 1 .. D |-> Lit(i)]}

ThreadDecodeInputs ==
    {<<Hex(<<12, 3, 5, 10, 12, 3, 5, 10>>)>>, <<Lit(57)>>}

\* Variant: the partial result is kept in a function-local static, which all
\* threads share (thread 1's is the one in memory)
CallStep_static(c, t) ==
    LET r == c[t]
        i == r.step + 1
        v == IF r.op = "encode"
             THEN <<BitOr(IF c[1].out = <<>> THEN Zero ELSE c[1].out[1],
                          mortonEncode(path, W, D, OnlyAxis(r.args, i)))>>
             ELSE Append(c[1].out, mortonDecode(path, W, D, r.args[1])[i])
    IN  [r EXCEPT !.step = i, !.out = v,
                  !.pc = IF i = D THEN "done" ELSE "running"]

\* One step of the call of thread t: the next operand of the encode
\* expression is OR-ed into the partial result, or the next coordinate of the
\* decode is written
CallStep(c, t) ==
    LET r == c[t]
        i == r.step + 1
        v == IF r.op = "encode"
             THEN <<BitOr(IF r.out = <<>> THEN Zero ELSE r.out[1],
                          mortonEncode(path, W, D, OnlyAxis(r.args, i)))>>
             ELSE Append(r.out, mortonDecode(path, W, D, r.args[1])[i])
    IN  [r EXCEPT !.step = i, !.out = v,
                  !.pc = IF i = D THEN "done" ELSE "running"]

\* Thread t calls mortonEncode(x, y[, z]); the entry checks pass
ThreadEncode(t) ==
    /\ calls[t].pc = "idle"
    /\ \E a \in ThreadEncodeInputs :
         /\ Failing(EncodeChecks(path, W, D, a)) = {}
         /\ calls' = [calls EXCEPT ![t] =
                        [pc |-> "running", op |-> "encode", args |-> a,
                         step |-> 0, out |-> <<>>]]
    /\ UNCHANGED <<build, codec, logger>>

\* Thread t calls mortonDecode(morton, x, y[, z])
ThreadDecode(t) ==
    /\ calls[t].pc = "idle"
    /\ \E a \in ThreadDecodeInputs :
         calls' = [calls EXCEPT ![t] =
                     [pc |-> "running", op |-> "decode", args |-> a,
                      step |-> 0, out |-> <<>>]]
    /\ UNCHANGED <<build, codec, logger>>

\* The call of thread t advances by one step
ThreadStep(t) ==
    /\ calls[t].pc = "running"
    /\ calls' = [calls EXCEPT ![t] = CallStep(calls, t)]
    /\ UNCHANGED <<build, codec, logger>>

\* The call of thread t returns and the thread drops the result
ThreadReturn(t) ==
    /\ calls[t].pc = "done"
    /\ calls' = [calls EXCEPT ![t] = NoCall]
    /\ UNCHANGED <<build, codec, logger>>

ThreadNext ==
    \E t \in Threads :
        \/ ThreadEncode(t)
        \/ ThreadDecode(t)
        \/ ThreadStep(t)
        \/ ThreadReturn(t)

ThreadSpec == Init /\ [][ThreadNext]_vars

\* ------------------------------------------------------------------------
\* Logger (logger.hpp, logger.cpp).  Text is a sequence of characters, each a
\* one-character string; "ESC" stands for '\033'.
\* ------------------------------------------------------------------------

\* static_cast<char>(d + '0') for 0 <= d <= 9
Digit(d) == <<"0", "1", "2", "3", "4", "5", "6", "7", "8", "9">>[d + 1]

\* snprintf "%d" of a non-negative value
RECURSIVE Decimal(_)
Decimal(n) == IF n < 10 THEN <<Digit(n)>> ELSE Append(Decimal(n \div 10), Digit(n % 10))

\* The two and three digit fields of the timestamp, for values below 100 and
\* below 1000 (logger.cpp 242-278)
TwoDigits(n) == <<Digit(n \div 10), Digit(n % 10)>>

ThreeDigits(n) == <<Digit(n \div 100), Digit((n % 100) \div 10), Digit((n % 100) % 10)>>

\* The characters snprintf or the copy produce for one argument.  A string is
\* copied, an int32_t is printed with "%d", a double with "%f" (six
\* decimals), a bool as true or false
Rendered(arg) ==
    IF arg.type = "string" THEN arg.value
    ELSE IF arg.type = "int32"
         THEN (IF arg.value < 0 THEN <<"-">> \o Decimal(0 - arg.value)
               ELSE Decimal(arg.value))
    ELSE IF arg.type = "double"
         THEN Decimal(arg.value \div 1000000) \o <<".">> \o
              ThreeDigits((arg.value % 1000000) \div 1000) \o
              ThreeDigits(arg.value % 1000)
    ELSE IF arg.value THEN <<"t", "r", "u", "e">> ELSE <<"f", "a", "l", "s", "e">>

\* buffer_pos[0 .. n-1] = text, for buffer_pos = buffer + pos.  Memory is the
\* buffer followed by whatever lies behind it: a write at or past buffer_end
\* lands there, and a byte behind the buffer that was never written is "?"
Store(mem, pos, text) ==
    (IF pos <= Len(mem) THEN SubSeq(mem, 1, pos)
     ELSE mem \o [i \in 1 .. (pos - Len(mem)) |-> "?"]) \o
    text \o
    (IF pos + Len(text) < Len(mem) THEN SubSeq(mem, pos + Len(text) + 1, Len(mem)) ELSE <<>>)

\* strlen: the number of characters before the first '\0'
strlen(mem) ==
    (CHOOSE i \in 1 .. (Len(mem) + 1) :
        /\ i = Len(mem) + 1 \/ mem[i] = "NUL"
        /\ \A j \in 1 .. (i - 1) : mem[j] # "NUL") - 1

\* std::string_view{buffer}: the characters before the first '\0'
getLastMessage(mem) == SubSeq(mem, 1, strlen(mem))

\* ASSERT(cond) while formatting: with JUNO_ENABLE_ASSERTS a false condition
\* calls failedAssert, which aborts; without, ASSERT expands to nothing.
\* A formatting state is [mem, pos, failed]
Checked(w, cond) == IF asserts /\ ~cond THEN [w EXCEPT !.failed = TRUE] ELSE w

\* appendStringViewToBuffer: the position is checked before the copy
appendStringViewToBuffer(w, sv) ==
    LET checked == Checked(w, w.pos + Len(sv) < buffer_size)
    IN  IF checked.failed THEN checked
        ELSE [mem |-> Store(w.mem, w.pos, sv), pos |-> w.pos + Len(sv), failed |-> FALSE]

\* snprintf(buffer_pos, buffer_end - buffer_pos, ...): at most size - 1
\* characters and a '\0'; nothing for size 0; the size is unsigned, so a
\* position past buffer_end gives a size that never limits the output
snprintf(w, text) ==
    LET size == buffer_size - w.pos
    IN  IF size = 0 THEN w.mem
        ELSE IF size < 0 \/ Len(text) < size THEN Store(w.mem, w.pos, text \o <<"NUL">>)
        ELSE Store(w.mem, w.pos, SubSeq(text, 1, size - 1) \o <<"NUL">>)

\* toBuffer(buffer_pos, value): a string is checked and then copied; a number
\* is printed by snprintf and the position checked; a bool is written and the
\* position checked afterwards.  After a failed ASSERT nothing more runs
toBuffer(w, arg) ==
    IF w.failed THEN w
    ELSE IF arg.type = "string" THEN appendStringViewToBuffer(w, arg.value)
    ELSE IF arg.type \in {"int32", "double"}
         THEN Checked([mem |-> snprintf(w, Rendered(arg)),
                       pos |-> w.pos + Len(Rendered(arg)), failed |-> FALSE],
                      w.pos + Len(Rendered(arg)) < buffer_size)
    ELSE Checked([mem |-> Store(w.mem, w.pos, Rendered(arg)),
                  pos |-> w.pos + Len(Rendered(arg)), failed |-> FALSE],
                 w.pos + Len(Rendered(arg)) < buffer_size)

\* addColor: "\033[1;3Xm" with X = 1, 3, 5 for error, warn and debug; for any
\* other level buffer_pos[0..4] and buffer_pos[6] are written, buffer_pos[5]
\* is not, and the position does not advance
addColor(msg_level, w) ==
    IF ~colorized THEN w
    ELSE LET lead == Store(Store(w.mem, w.pos, <<"ESC", "[", "1", ";", "3">>), w.pos + 6, <<"m">>)
         IN  IF msg_level = levels_error
             THEN [w EXCEPT !.mem = Store(lead, w.pos + 5, <<"1">>), !.pos = w.pos + 7]
             ELSE IF msg_level = levels_warn
             THEN [w EXCEPT !.mem = Store(lead, w.pos + 5, <<"3">>), !.pos = w.pos + 7]
             ELSE IF msg_level = levels_debug
             THEN [w EXCEPT !.mem = Store(lead, w.pos + 5, <<"5">>), !.pos = w.pos + 7]
             ELSE [w EXCEPT !.mem = lead]

\* The fifteen characters "[hh:mm:ss.mmm] " of the time elapsed since
\* start_time
Timestamp ==
    LET elapsed == now - start_time
        hours == (elapsed \div 1000) \div 3600
        minutes == ((elapsed \div 1000) \div 60) % 60
        seconds == (elapsed \div 1000) % 60
        milliseconds == elapsed % 1000
    IN  <<"[">> \o TwoDigits(hours) \o <<":">> \o TwoDigits(minutes) \o <<":">> \o
        TwoDigits(seconds) \o <<".">> \o ThreeDigits(milliseconds) \o <<"]", " ">>

\* addTimestamp
addTimestamp(w) ==
    IF ~timestamped THEN w
    ELSE [w EXCEPT !.mem = Store(w.mem, w.pos, Timestamp), !.pos = w.pos + 15]

\* The name written for a level, empty for a level that has none
LevelName(msg_level) ==
    IF msg_level = levels_error THEN <<"E", "R", "R", "O", "R">>
    ELSE IF msg_level = levels_warn THEN <<"W", "A", "R", "N">>
    ELSE IF msg_level = levels_info THEN <<"I", "N", "F", "O">>
    ELSE IF msg_level = levels_debug THEN <<"D", "E", "B", "U", "G">>
    ELSE <<>>

\* addLevel: the level's name and " - "
addLevel(msg_level, w) ==
    LET text == LevelName(msg_level) \o <<" ", "-", " ">>
    IN  [w EXCEPT !.mem = Store(w.mem, w.pos, text), !.pos = w.pos + Len(text)]

\* setPreamble: color, timestamp, level, from the start of the buffer
setPreamble(msg_level) ==
    addLevel(msg_level, addTimestamp(addColor(msg_level,
        [mem |-> buffer, pos |-> 0, failed |-> FALSE])))

\* setPostamble: the color reset is written, then the position is checked,
\* then the terminating '\0' is written
setPostamble(w) ==
    IF w.failed THEN w
    ELSE LET reset_color == IF colorized
                            THEN [w EXCEPT !.mem = Store(w.mem, w.pos, <<"ESC", "[", "0", "m">>),
                                           !.pos = w.pos + 4]
                            ELSE w
             checked == Checked(reset_color, reset_color.pos < buffer_size)
         IN  IF checked.failed THEN checked
             ELSE [checked EXCEPT !.mem = Store(checked.mem, checked.pos, <<"NUL">>)]

\* The fold expression: every argument is sent to the buffer in call order
RECURSIVE Fold(_, _)
Fold(w, args) == IF args = <<>> THEN w ELSE Fold(toBuffer(w, Head(args)), Tail(args))

\* The formatting part of printMessage: preamble, arguments, postamble
Message(msg_level, args) == setPostamble(Fold(setPreamble(msg_level), args))

\* Variant: a message passes only if its level is below the logger's
Passes_strict(msg_level, lvl) == msg_level < lvl

\* if (msg_level <= level)
Passes(msg_level, lvl) == msg_level <= lvl

\* Values assigned to juno::logger::level: the five named levels and the
\* values next to them
LevelValues == (levels_off - 1) .. (levels_debug + 1)

\* Readings of the clock, in milliseconds: 0 and 1 h 2 min 3.004 s
TimePoints == {0, 3723004}

\* n characters of text
Filler(n) == [i \in 1 .. n |-> "x"]

\* The argument list of a logging call of TEST_CASE(loggerTest): a string and
\* a number
LogArgs ==
    {<<[type |-> "string", value |-> <<"1", " ", "+", " ", "1", " ", "=", " ">>],
       [type |-> "int32", value |-> 2]>>}

\* Argument lists of every type, and lists whose text ends next to the end of
\* the buffer: 225 characters, 248 characters and a bool, 246 characters and
\* an int32_t
EdgeArgs ==
    {<<[type |-> "string", value |-> <<"i", "n", "f", "o">>]>>,
     <<[type |-> "bool", value |-> TRUE], [type |-> "double", value |-> 1000000]>>,
     <<[type |-> "string", value |-> Filler(225)]>>,
     <<[type |-> "string", value |-> Filler(248)], [type |-> "bool", value |-> TRUE]>>,
     <<[type |-> "string", value |-> Filler(246)], [type |-> "int32", value |-> 1111]>>}

\* The memory as the next call finds it.  No step of the logger depends on
\* which characters an earlier message left behind the terminating '\0', so
\* each of them, up to the last byte ever written, is kept as "old"
Stale(mem) ==
    LET end == strlen(mem) + 1
        high == CHOOSE i \in 0 .. Len(mem) :
                    /\ i = 0 \/ mem[i] # "NUL"
                    /\ \A j \in (i + 1) .. Len(mem) : mem[j] = "NUL"
    IN  IF high <= end THEN mem
        ELSE SubSeq(mem, 1, end) \o [i \in 1 .. (high - end) |-> "old"] \o
             SubSeq(mem, high + 1, Len(mem))

\* Values fprintf returns: the number of characters written, or a negative
\* value on an output error
PrintResults == {"written", "failed"}

\* Variant: the program goes on after an error whatever exit_on_error is
Emit_noexit(msg_level, mem) ==
    \E result \in PrintResults :
        /\ buffer' = Stale(mem)
        /\ emitted' = <<[stream |-> IF msg_level = levels_error THEN "stderr" ELSE "stdout",
                         text |-> getLastMessage(mem),
                         result |-> result]>>
        /\ status' = IF asserts /\ result = "failed" THEN "aborted" ELSE "running"

\* The part of printMessage after formatting: fprintf to stderr for an error
\* and to stdout otherwise; exit(1) after an error if exit_on_error;
\* ASSERT(fprintf_result > 0); the result of "%s\n" is never 0
Emit(msg_level, mem) ==
    \E result \in PrintResults :
        /\ buffer' = Stale(mem)
        /\ emitted' = <<[stream |-> IF msg_level = levels_error THEN "stderr" ELSE "stdout",
                         text |-> getLastMessage(mem),
                         result |-> result]>>
        /\ status' = IF msg_level = levels_error /\ exit_on_error THEN "exited"
                     ELSE IF asserts /\ result = "failed" THEN "aborted"
                     ELSE "running"

\* printMessage(msg_level, args...).  A failed ASSERT aborts before anything
\* is printed.  Without assertions a message that does not fit is written
\* past the end of the buffer, which is undefined: the program either goes on
\* with the bytes stored behind the buffer, or crashes
printMessage(msg_level, args) ==
    /\ status = "running"
    /\ last' = [op |-> "log", msg_level |-> msg_level, args |-> args]
    /\ IF Passes(msg_level, level)
       THEN LET w == Message(msg_level, args)
            IN  IF w.failed
                THEN /\ buffer' = w.mem
                     /\ emitted' = <<>>
                     /\ status' = "aborted"
                ELSE IF Len(w.mem) > buffer_size
                THEN \/ Emit(msg_level, w.mem)
                     \/ /\ buffer' = w.mem
                        /\ emitted' = <<>>
                        /\ status' = "crashed"
                ELSE Emit(msg_level, w.mem)
       ELSE /\ buffer' = buffer
            /\ emitted' = <<>>
            /\ status' = status
    /\ UNCHANGED <<build, codec, calls, settings, start_time, now>>

\* juno::logger::error(args...), with the arguments drawn from lists
LogError(lists) == \E args \in lists : printMessage(levels_error, args)

\* juno::logger::warn(args...)
LogWarn(lists) == \E args \in lists : printMessage(levels_warn, args)

\* juno::logger::info(args...)
LogInfo(lists) == \E args \in lists : printMessage(levels_info, args)

\* juno::logger::debug(args...)
LogDebug(lists) == \E args \in lists : printMessage(levels_debug, args)

\* The user assigns juno::logger::level
SetLevel ==
    /\ status = "running"
    /\ \E l \in LevelValues : level' = l
    /\ last' = [op |-> "set", msg_level |-> 0, args |-> <<>>]
    /\ emitted' = <<>>
    /\ UNCHANGED <<build, codec, calls, timestamped, colorized, exit_on_error,
                   start_time, now, buffer, status>>

\* The user assigns juno::logger::timestamped
SetTimestamped ==
    /\ status = "running"
    /\ \E b \in BOOLEAN : timestamped' = b
    /\ last' = [op |-> "set", msg_level |-> 0, args |-> <<>>]
    /\ emitted' = <<>>
    /\ UNCHANGED <<build, codec, calls, level, colorized, exit_on_error,
                   start_time, now, buffer, status>>

\* The user assigns juno::logger::colorized
SetColorized ==
    /\ status = "running"
    /\ \E b \in BOOLEAN : colorized' = b
    /\ last' = [op |-> "set", msg_level |-> 0, args |-> <<>>]
    /\ emitted' = <<>>
    /\ UNCHANGED <<build, codec, calls, level, timestamped, exit_on_error,
                   start_time, now, buffer, status>>

\* The user assigns juno::logger::exit_on_error
SetExitOnError ==
    /\ status = "running"
    /\ \E b \in BOOLEAN : exit_on_error' = b
    /\ last' = [op |-> "set", msg_level |-> 0, args |-> <<>>]
    /\ emitted' = <<>>
    /\ UNCHANGED <<build, codec, calls, level, timestamped, colorized,
                   start_time, now, buffer, status>>

\* juno::logger::reset()
reset ==
    /\ status = "running"
    /\ level' = default_level
    /\ timestamped' = default_timestamped
    /\ colorized' = default_colorized
    /\ start_time' = now
    /\ last' = [op |-> "reset", msg_level |-> 0, args |-> <<>>]
    /\ emitted' = <<>>
    /\ UNCHANGED <<build, codec, calls, exit_on_error, now, buffer, status>>

\* Time passes
Tick ==
    /\ status = "running"
    /\ \E t \in TimePoints : t > now /\ now' = t
    /\ UNCHANGED <<build, codec, calls, settings, start_time, buffer, status,
                   last, emitted>>

LoggerNext ==
    \/ LogError(LogArgs)
    \/ LogWarn(LogArgs)
    \/ LogInfo(LogArgs)
    \/ LogDebug(LogArgs)
    \/ SetLevel
    \/ SetTimestamped
    \/ SetColorized
    \/ SetExitOnError
    \/ reset
    \/ Tick

\* The logger does not depend on the codec's realization, width or
\* dimensionality: one of each is kept
LoggerInit == Init /\ path = "emulation" /\ W = 32 /\ D = 2

LoggerSpec == LoggerInit /\ [][LoggerNext]_vars

\* The logger configured once, as TEST_CASE(loggerTest) does before its first
\* message: every message passes and an error does not exit; the decoration
\* options and the time elapsed take each of their values
BufferInit ==
    /\ path = "emulation" /\ W = 32 /\ D = 2
    /\ asserts \in BOOLEAN
    /\ pc = "idle"
    /\ coords = <<>> /\ morton = <<>> /\ outs = <<>> /\ recode = <<>> /\ diag = <<>>
    /\ ftype = "" /\ fcoords = <<>> /\ fouts = <<>>
    /\ calls = [t \in Threads |-> NoCall]
    /\ level = levels_debug
    /\ timestamped \in BOOLEAN
    /\ colorized \in BOOLEAN
    /\ exit_on_error = FALSE
    /\ start_time = 0
    /\ now \in TimePoints
    /\ buffer = EmptyBuffer
    /\ status = "running"
    /\ last = [op |-> "none", msg_level |-> 0, args |-> <<>>]
    /\ emitted = <<>>

\* Messages of every argument type and of lengths around the buffer's
BufferNext ==
    \/ LogError(EdgeArgs)
    \/ LogWarn(EdgeArgs)
    \/ LogInfo(EdgeArgs)
    \/ LogDebug(EdgeArgs)

BufferSpec == BufferInit /\ [][BufferNext]_vars


\* ------------------------------------------------------------------------
\* Properties
\* ------------------------------------------------------------------------

\* floor(W / D): the number of bits one axis may use
AxisBits == W \div D

\* Every coordinate of the tuple is at most the max axis coordinate
InRange(t) == \A i \in 1 .. D : LessEq(t[i], max_morton_coord(W, D))

\* The bit interleave of a tuple: bit k of axis i goes to bit D*k + i
Interleave(t) == {D * k + (i - 1) : i \in 1 .. D, k \in 0 .. (W - 1)} \cap
                 UNION {{D * k + (i - 1) : k \in t[i]} : i \in 1 .. D}

\* The bit gather of a code: bit k of axis i is bit D*k + i of the code,
\* for k below floor(W / D)
Deinterleave(c) ==
    [i \in 1 .. D |-> {k \in 0 .. (AxisBits - 1) : (D * k + (i - 1)) \in c}]

\* The axis masks of the BMI2 path
bmi_axis_mask(i) ==
    IF D = 2 THEN (IF i = 1 THEN bmi_2d_x_mask(W) ELSE bmi_2d_y_mask(W))
    ELSE (IF i = 1 THEN bmi_3d_x_mask(W)
          ELSE IF i = 2 THEN bmi_3d_y_mask(W) ELSE bmi_3d_z_mask(W))

\* The axis masks the emulation applies: the helper's mask shifted left by
\* the axis index (morton.hpp 271, 280, 306, 316-317)
emu_axis_mask(i) ==
    Shl(IF D = 2 THEN (IF W = 32 THEN mask0x55555555 ELSE mask0x5555555555555555)
                 ELSE (IF W = 32 THEN mask0x09249249 ELSE mask0x1249249249249249),
        i - 1, W)

\* The axis masks of the realization this build compiled
axis_mask(i) == IF path = "bmi2" THEN bmi_axis_mask(i) ELSE emu_axis_mask(i)

\* C1: integer round trip - decoding the code returned by mortonEncode for
\* in-range coordinates writes back exactly those coordinates.
C1_RoundTrip ==
    (pc = "roundtrip" /\ InRange(coords)) => outs = coords

C1_Witness ==
    /\ pc = "roundtrip" /\ InRange(coords) /\ D = 3 /\ W = 64
    /\ path = "emulation" /\ 20 \in coords[3] /\ coords[1] # Zero

\* C2: integer mortonEncode is the bit interleave for in-range coordinates,
\* with the boundary values of the test suite.
C2_Interleave ==
    (pc = "encoded" /\ InRange(coords)) =>
        /\ morton[1] = Interleave(coords)
        /\ (D = 2 /\ coords = <<Lit(0), Lit(0)>>) => morton[1] = Lit(0)
        /\ (D = 2 /\ coords = <<Lit(1), Lit(0)>>) => morton[1] = Lit(1)
        /\ (D = 2 /\ coords = <<Lit(0), Lit(1)>>) => morton[1] = Lit(2)
        /\ (D = 2 /\ coords = <<Lit(1), Lit(1)>>) => morton[1] = Lit(3)
        /\ (D = 2 /\ coords = <<Lit(2), Lit(2)>>) => morton[1] = Lit(12)
        /\ (D = 2 /\ coords = <<Lit(3), Lit(3)>>) => morton[1] = Lit(15)
        /\ \A x, y, z \in 0 .. 1 :
              (D = 3 /\ coords = <<Lit(x), Lit(y), Lit(z)>>) =>
                  morton[1] = Lit(x + 2 * y + 4 * z)
        /\ (D = 3 /\ coords = <<Lit(2), Lit(0), Lit(0)>>) => morton[1] = Lit(8)
        /\ (D = 3 /\ coords = <<Lit(2), Lit(2), Lit(2)>>) => morton[1] = Lit(56)
        /\ (D = 3 /\ coords = <<Lit(3), Lit(3), Lit(3)>>) => morton[1] = Lit(63)

C2_Witness ==
    /\ pc = "encoded" /\ D = 2 /\ W = 32 /\ path = "emulation"
    /\ coords = <<Lit(3), Lit(3)>> /\ morton = <<Lit(15)>>

\* C3: integer mortonDecode is the bit gather for every code value in every
\* realization: axis i gets bit D*k + i of the code as its bit k for
\* k < floor(W / D), and no higher bit.
C3_Gather ==
    pc \in {"decoded", "roundtrip"} => outs = Deinterleave(morton[1])

\* C4: for in-range coordinates the BMI2 path and the emulation path of
\* mortonEncode return the same code.
C4_EncodeEquivalent ==
    (pc = "encoded" /\ InRange(coords)) =>
        \A p \in Paths : morton[1] = mortonEncode(p, W, D, coords)

C4_Witness ==
    /\ pc = "encoded" /\ InRange(coords) /\ path = "bmi2" /\ D = 3 /\ W = 32
    /\ coords[2] = max_3d_morton_coord(32) /\ 9 \in coords[3]

\* C5: for every code value the BMI2 path and the emulation path of
\* mortonDecode write the same coordinates to every axis.
C5_DecodeEquivalent ==
    pc \in {"decoded", "roundtrip"} =>
        \A p \in Paths : outs = mortonDecode(p, W, D, morton[1])

\* C6: the axis masks of distinct axes are pairwise disjoint, for the BMI2
\* masks truncated to the width and for the masks the emulation applies.
C6_MasksDisjoint ==
    \A i, j \in 1 .. D :
        i # j => /\ bmi_axis_mask(i) \cap bmi_axis_mask(j) = {}
                 /\ emu_axis_mask(i) \cap emu_axis_mask(j) = {}

C6_Witness ==
    /\ pc = "encoded" /\ D = 3 /\ W = 64 /\ InRange(coords)
    /\ morton[1] \cap axis_mask(1) # {} /\ morton[1] \cap axis_mask(3) # {}

\* C7: the OR of all axis masks of a dimensionality is exactly the usable
\* bits: all W bits in 2D, the low 3 * floor(W / 3) bits in 3D.
C7_MasksCoverUsableBits ==
    pc # "idle" =>
    UNION {axis_mask(i) : i \in 1 .. D} = 0 .. (D * AxisBits - 1)

\* C8 as stated: the axis masks partition the positions 0..W-1 by residue.
C8_PartitionAllPositions ==
    pc # "idle" =>
    \A i \in 1 .. D : axis_mask(i) = {p \in BitPos(W) : p % D = i - 1}

\* C8 (amended): every usable bit position p < D * floor(W / D) belongs to
\* the mask of axis i exactly when p mod D = i, in both realizations.
C8_PartitionUsablePositions ==
    LET usable == 0 .. (D * AxisBits - 1)
    IN  \A i \in 1 .. D :
            /\ bmi_axis_mask(i) \cap usable = {p \in usable : p % D = i - 1}
            /\ emu_axis_mask(i) \cap usable = {p \in usable : p % D = i - 1}

C8_Witness ==
    /\ pc = "decoded" /\ D = 3 /\ W = 32 /\ path = "emulation"
    /\ 29 \in morton[1] /\ 9 \in outs[3]

\* C9: the max axis coordinate is 2^floor(W / D) - 1 and equals
\* 2^popcount(axis mask) - 1 for every axis mask of the width/dimensionality.
C9_MaxCoordinate ==
    pc # "idle" =>
    /\ max_morton_coord(W, D) = 0 .. (AxisBits - 1)
    /\ (W = 32 /\ D = 2) => max_morton_coord(W, D) = 0 .. 15
    /\ (W = 64 /\ D = 2) => max_morton_coord(W, D) = 0 .. 31
    /\ (W = 32 /\ D = 3) => max_morton_coord(W, D) = 0 .. 9
    /\ (W = 64 /\ D = 3) => max_morton_coord(W, D) = 0 .. 20
    /\ \A i \in 1 .. D :
          max_morton_coord(W, D) = 0 .. (Cardinality(axis_mask(i)) - 1)

\* C10: in a checked build integer mortonEncode halts with a diagnostic and
\* no result exactly when some coordinate exceeds the max axis coordinate;
\* for in-range arguments no check fires, the one inside the 64-bit 3D
\* scatter helper included, and mortonDecode never halts.
C10_CheckedBuildHalts ==
    asserts =>
        /\ (pc \in {"encoded", "aborted", "reencoded"}) =>
              ((pc = "aborted") <=> ~InRange(coords))
        /\ pc = "aborted" =>
              /\ diag # <<>>
              /\ recode = <<>>
              /\ (outs = <<>> => morton = <<>>)
        /\ pc # "aborted" => diag = <<>>
        /\ pc \in {"encoded", "reencoded"} =>
              \A k \in DOMAIN EncodeChecks(path, W, D, coords) :
                  EncodeChecks(path, W, D, coords)[k].holds

C10_Witness ==
    /\ asserts /\ pc = "aborted" /\ path = "emulation" /\ W = 64 /\ D = 3
    /\ outs = <<>> /\ diag[1].line = 314 /\ LessEq(coords[1], max_3d_morton_coord(64))

WithoutAxis(t, i) == [j \in 1 .. D |-> IF j = i THEN Zero ELSE t[j]]

\* a < b on natural numbers held as bit sets
Less(a, b) == ~LessEq(b, a)

\* Every coordinate of the float tuple lies in [0,1]
InUnit(v) ==
    \A i \in 1 .. D : FloatLessEq(FloatZero, v[i]) /\ FloatLessEq(v[i], FloatOne)

\* The exact product v * max of a float in [0,1] (exp <= 0) and the max axis
\* coordinate, as a multiple of 2^v.exp
ExactProduct(v) == Times(v.num, max_morton_coord(W, D))

\* q - 1 < v * max < q + 1 in exact arithmetic: q is the floor or the
\* ceiling of the exact product
WithinOneStep(q, v) ==
    /\ Less(ExactProduct(v), Up(Plus(q, {0}), 0 - v.exp))
    /\ q # Zero => Less(Up(Minus(q, {0}), 0 - v.exp), ExactProduct(v))

\* X-axis bits of the code word: 0x5555... in 2D, 0x09249249 /
\* 0x1249249249249249 in 3D
XAxisCode ==
    IF D = 2 THEN Trunc(Hex(<<5, 5, 5, 5, 5, 5, 5, 5, 5, 5, 5, 5, 5, 5, 5, 5>>), W)
    ELSE IF W = 32 THEN Hex(<<0, 9, 2, 4, 9, 2, 4, 9>>)
    ELSE Hex(<<1, 2, 4, 9, 2, 4, 9, 2, 4, 9, 2, 4, 9, 2, 4, 9>>)

\* All axis bits of the code word: every bit in 2D, 0x3fffffff /
\* 0x7fffffffffffffff in 3D
AllAxesCode ==
    IF D = 2 THEN AllOnes(W)
    ELSE IF W = 32 THEN Hex(<<3, 15, 15, 15, 15, 15, 15, 15>>)
    ELSE Hex(<<7, 15, 15, 15, 15, 15, 15, 15, 15, 15, 15, 15, 15, 15, 15, 15>>)

\* C12: float mortonEncode of coordinates in [0,1] quantizes each one to the
\* truncation of its product with the max axis coordinate, the product being
\* taken in T (so the quantized value is the floor or the ceiling of the exact
\* product), never exceeds the max axis coordinate, and returns the integer
\* encode of the quantized values; 0.0 gives 0, 1.0 gives the maximum, and
\* the boundary codes are those of the test suite.
C12_Quantize ==
    (pc = "fencoded" /\ InUnit(fcoords)) =>
        /\ \A i \in 1 .. D :
             /\ <<coords[i]>> =
                  ToUnsigned(FloatMul(fcoords[i],
                                      FromUnsigned(max_morton_coord(W, D), ftype),
                                      ftype), W)
             /\ WithinOneStep(coords[i], fcoords[i])
             /\ fcoords[i] = FloatZero => coords[i] = Zero
             /\ fcoords[i] = FloatOne => coords[i] = max_morton_coord(W, D)
        /\ InRange(coords)
        /\ morton[1] = Interleave(coords)
        /\ (\A i \in 1 .. D : fcoords[i] = FloatZero) => morton[1] = Zero
        /\ (\A i \in 1 .. D : fcoords[i] = FloatOne) => morton[1] = AllAxesCode
        /\ (\A i \in 1 .. D : fcoords[i] = (IF i = 1 THEN FloatOne ELSE FloatZero))
              => morton[1] = XAxisCode
        /\ (D = 2 /\ fcoords = <<FloatZero, FloatOne>>) =>
              morton[1] = Trunc(Hex(<<10, 10, 10, 10, 10, 10, 10, 10,
                                      10, 10, 10, 10, 10, 10, 10, 10>>), W)

\* A value just below 1 / max whose product rounds up to 1 in T
C12_Witness ==
    /\ pc = "fencoded" /\ InUnit(fcoords) /\ D = 3 /\ W = 32 /\ ftype = "float"
    /\ coords[1] = Lit(1)
    /\ Less(ExactProduct(fcoords[1]), Up(coords[1], 0 - fcoords[1].exp))

\* |a - b| of two floats, as a multiple of 2^min(a.exp, b.exp)
ExactDistance(a, b) ==
    LET m == IF a.exp < b.exp THEN a.exp ELSE b.exp
        x == Up(a.num, a.exp - m)
        y == Up(b.num, b.exp - m)
    IN  IF LessEq(x, y) THEN Minus(y, x) ELSE Minus(x, y)

\* |a - b| <= 1 / max in exact arithmetic, for non-negative floats with
\* exponents <= 0
WithinQuantum(a, b) ==
    LET m == IF a.exp < b.exp THEN a.exp ELSE b.exp
    IN  LessEq(Times(ExactDistance(a, b), max_morton_coord(W, D)), {0 - m})

\* C13: float quantization bound - for coordinates in [0,1], float
\* mortonDecode of the code returned by float mortonEncode differs from each
\* coordinate by at most 1 / max axis coordinate, for every supported code
\* width, float type and dimensionality.
C13_QuantizationBound ==
    (pc = "froundtrip" /\ InUnit(fcoords)) =>
        \A i \in 1 .. D : WithinQuantum(fouts[i], fcoords[i])

\* The largest double below 1 / (2^32 - 1) decodes to 0: the error is almost
\* a whole step
C13_Witness ==
    /\ pc = "froundtrip" /\ InUnit(fcoords) /\ W = 64 /\ D = 2 /\ ftype = "double"
    /\ fouts[1] = FloatZero /\ fcoords[1] # FloatZero
    /\ ~LessEq(Times(Up(ExactDistance(fouts[1], fcoords[1]), 1), max_morton_coord(W, D)),
               {0 - fcoords[1].exp})

\* a = b as values
FloatEq(a, b) == FloatLessEq(a, b) /\ FloatLessEq(b, a)

\* C14: float mortonDecode writes, for every code, each axis as the
\* integer-decoded axis value divided by the max axis coordinate, and every
\* coordinate written lies in [0,1]; the all-axis-bits code gives 1 on every
\* axis and the x-axis mask gives (1, 0[, 0]).
C14_DecodeInUnit ==
    pc = "fdecoded" =>
        /\ InUnit(fouts)
        /\ \A i \in 1 .. D :
             FloatEq(fouts[i],
                     FloatDiv(FromUnsigned(outs[i], ftype),
                              FromUnsigned(max_morton_coord(W, D), ftype), ftype))
        /\ morton[1] = AllAxesCode => \A i \in 1 .. D : FloatEq(fouts[i], FloatOne)
        /\ morton[1] = XAxisCode =>
              \A i \in 1 .. D : FloatEq(fouts[i], IF i = 1 THEN FloatOne ELSE FloatZero)

\* C15: no floating-point mortonEncode call, 2D or 3D, exists with a 64-bit
\* code and 32-bit float coordinates: the instantiation does not compile.
C15_WideCodeFromFloatRejected ==
    fcoords # <<>> => ~(W = 64 /\ ftype = "float")

\* C16: axis-local effect of encode - for in-range coordinates the code
\* differs from the code of the same tuple with axis i set to 0 only in bit
\* positions of axis i's mask, so no axis changes a bit of another axis.
C16_AxisLocal ==
    (pc = "encoded" /\ InRange(coords)) =>
        \A i \in 1 .. D :
            BitXor(morton[1], mortonEncode(path, W, D, WithoutAxis(coords, i)))
                \subseteq axis_mask(i)

C16_Witness ==
    /\ pc = "encoded" /\ InRange(coords) /\ D = 3 /\ W = 32 /\ path = "emulation"
    /\ \A i \in 1 .. 3 : coords[i] # Zero
    /\ morton[1] # mortonEncode(path, W, D, WithoutAxis(coords, 2))

\* The tuple with every axis at the max axis coordinate
MaxTuple == [i \in 1 .. D |-> max_morton_coord(W, D)]

\* What the call of record r returns or writes when no other call runs
AloneResult(r) ==
    IF r.op = "encode" THEN <<mortonEncode(path, W, D, r.args)>>
    ELSE mortonDecode(path, W, D, r.args[1])

Formatted == emitted # <<>> \/ status \notin {"aborted", "crashed"}

\* C19: logger level filtering - with the logger level L, a message of level
\* m (error = 1, warn = 2, info = 3, debug = 4) is formatted into the buffer
\* and printed if and only if m <= L; with L = off nothing is emitted; a
\* filtered-out message leaves the buffer, the settings and the process state
\* unchanged.  Stated for messages that fit the buffer.
C19_LevelFilter ==
    [][(last'.op = "log" /\ Formatted') =>
         /\ (emitted' # <<>>) <=> (last'.msg_level <= level)
         /\ emitted' # <<>> =>
              /\ getLastMessage(buffer') = emitted'[1].text
              /\ emitted'[1].stream =
                   (IF last'.msg_level = levels_error THEN "stderr" ELSE "stdout")
         /\ emitted' = <<>> =>
              /\ buffer' = buffer
              /\ status' = status
              /\ settings' = settings
         /\ level = levels_off => emitted' = <<>>]_vars

\* A debug message at level info is dropped and the earlier message stays in
\* the buffer
C19_Witness ==
    /\ last.op = "log" /\ last.msg_level = levels_debug
    /\ level = levels_info
    /\ emitted = <<>>
    /\ getLastMessage(buffer) # <<>>
    /\ status = "running"

\* C20: after reset() every logger option is at its default: level = info,
\* timestamped, colorized and exit_on_error all true.
C20_ResetRestoresDefaults ==
    last.op = "reset" =>
        /\ level = levels_info
        /\ timestamped = TRUE
        /\ colorized = TRUE
        /\ exit_on_error = TRUE

\* C18 as stated: in 3D exactly one bit position of the code is never set
\* by an in-range input, for both widths.
C18_OneUnusedBit ==
    (pc = "encoded" /\ D = 3 /\ InRange(coords)) =>
        LET full == mortonEncode(path, W, D, MaxTuple)
        IN  /\ morton[1] \subseteq full
            /\ Cardinality(BitPos(W) \ full) = 1

\* C18 (amended): in 3D the W - 3 * floor(W / 3) top bit positions (2 for
\* 32 bits, 1 for 64 bits) are 0 in every code of in-range coordinates, and
\* every other position is set by the all-maximum tuple.
C18_UnusedTopBits ==
    (pc = "encoded" /\ D = 3 /\ InRange(coords)) =>
        LET usable == 0 .. (3 * AxisBits - 1)
        IN  /\ morton[1] \subseteq usable
            /\ coords = MaxTuple => morton[1] = usable
            /\ Cardinality(BitPos(W) \ usable) = (IF W = 32 THEN 2 ELSE 1)

C18_Witness ==
    /\ pc = "encoded" /\ D = 3 /\ W = 32 /\ coords = MaxTuple
    /\ BitPos(32) \ morton[1] = {30, 31}

\* C21 as stated: a printed error message goes to stderr and the program
\* exits with status 1 if and only if exit_on_error is true, and with
\* exit_on_error false the program continues; warn, info and debug messages
\* go to stdout and never cause an exit when printing succeeds.
C21_ExitOnError ==
    [][(last'.op = "log" /\ emitted' # <<>>) =>
         IF last'.msg_level = levels_error
         THEN /\ emitted'[1].stream = "stderr"
              /\ (status' = "exited") <=> exit_on_error
              /\ ~exit_on_error => status' = "running"
         ELSE /\ emitted'[1].stream = "stdout"
              /\ status' # "exited"
              /\ emitted'[1].result = "written" => status' = "running"]_vars

\* C21 (amended): a printed error message goes to stderr and the program
\* exits with status 1 if and only if exit_on_error is true; with
\* exit_on_error false the program continues when printing succeeds, and
\* also when it fails in a build without assertions; warn, info and debug
\* messages go to stdout, never exit with status 1, and the program
\* continues when printing succeeds.
C21_ExitOnErrorWhenPrinted ==
    [][(last'.op = "log" /\ emitted' # <<>>) =>
         IF last'.msg_level = levels_error
         THEN /\ emitted'[1].stream = "stderr"
              /\ (status' = "exited") <=> exit_on_error
              /\ (~exit_on_error /\ (emitted'[1].result = "written" \/ ~asserts))
                    => status' = "running"
         ELSE /\ emitted'[1].stream = "stdout"
              /\ status' # "exited"
              /\ emitted'[1].result = "written" => status' = "running"]_vars

\* An error was printed with exit_on_error false and the program runs on
C21_Witness ==
    /\ last.op = "log" /\ last.msg_level = levels_error
    /\ ~exit_on_error
    /\ emitted # <<>>
    /\ emitted[1].stream = "stderr"
    /\ emitted[1].result = "written"
    /\ status = "running"

\* The scatter and gather helpers of the emulation path for this width and
\* dimensionality
ScatterHelper(x) ==
    IF D = 2 THEN (IF W = 32 THEN pdep0x55555555(x) ELSE pdep0x5555555555555555(x))
    ELSE (IF W = 32 THEN pdep0x92492492(x) ELSE pdep0x9249249249249249(x))

GatherHelper(c) ==
    IF D = 2 THEN (IF W = 32 THEN pext0x55555555(c) ELSE pext0x5555555555555555(c))
    ELSE (IF W = 32 THEN pext0x92492492(c) ELSE pext0x9249249249249249(c))

\* The masks the 2D helpers are named after
NamedMask2D == IF W = 32 THEN Hex(<<5, 5, 5, 5, 5, 5, 5, 5>>)
               ELSE Hex(<<5, 5, 5, 5, 5, 5, 5, 5, 5, 5, 5, 5, 5, 5, 5, 5>>)

\* The masks the 3D helpers are named after
NamedMask3D == IF W = 32 THEN Hex(<<9, 2, 4, 9, 2, 4, 9, 2>>)
               ELSE Hex(<<9, 2, 4, 9, 2, 4, 9, 2, 4, 9, 2, 4, 9, 2, 4, 9>>)

\* The masks the 3D helpers apply
AppliedMask3D == IF W = 32 THEN Hex(<<0, 9, 2, 4, 9, 2, 4, 9>>)
                 ELSE Hex(<<1, 2, 4, 9, 2, 4, 9, 2, 4, 9, 2, 4, 9, 2, 4, 9>>)

\* The emulation path has scattered every coordinate with the helper, and the
\* helper's value for each is the reference scatter with mask
ScattersAs(mask) ==
    /\ \A i \in 1 .. D : ScatterHelper(coords[i]) = pdep(coords[i], mask)
    /\ morton[1] = UNION {Shl(pdep(coords[i], mask), i - 1, W) : i \in 1 .. D}

\* The emulation path has gathered every coordinate with the helper, and the
\* helper's value for each shifted code is the reference gather with mask
GathersAs(mask) ==
    /\ \A i \in 1 .. D :
          GatherHelper(Shr(morton[1], i - 1)) = pext(Shr(morton[1], i - 1), mask)
    /\ outs = [i \in 1 .. D |-> pext(Shr(morton[1], i - 1), mask)]

C24_WritesInsideBuffer ==
    last.op = "log" => Len(buffer) = buffer_size

\* The characters of the arguments, in call order
RECURSIVE Body(_)
Body(args) == IF args = <<>> THEN <<>> ELSE Rendered(Head(args)) \o Body(Tail(args))

\* The layout of a message: color escape for error, warn and debug if
\* colorized, the timestamp, the level name, " - ", the arguments, the color
\* reset if colorized
Layout(msg_level, stamp, args) ==
    (IF colorized /\ msg_level \in {levels_error, levels_warn, levels_debug}
     THEN <<"ESC", "[", "1", ";", "3",
            IF msg_level = levels_error THEN "1"
            ELSE IF msg_level = levels_warn THEN "3" ELSE "5", "m">>
     ELSE <<>>) \o
    stamp \o
    (IF msg_level = levels_error THEN <<"E", "R", "R", "O", "R">>
     ELSE IF msg_level = levels_warn THEN <<"W", "A", "R", "N">>
     ELSE IF msg_level = levels_info THEN <<"I", "N", "F", "O">>
     ELSE <<"D", "E", "B", "U", "G">>) \o
    <<" ", "-", " ">> \o
    Body(args) \o
    (IF colorized THEN <<"ESC", "[", "0", "m">> ELSE <<>>)

\* The fifteen characters of text where the timestamp of a message of this
\* level stands, or none if the logger is not timestamped
StampOf(msg_level, text) ==
    LET from == IF colorized /\ msg_level \in {levels_error, levels_warn, levels_debug}
                THEN 7 ELSE 0
    IN  IF ~timestamped THEN <<>>
        ELSE IF Len(text) < from + 15 THEN <<"short">>
        ELSE SubSeq(text, from + 1, from + 15)

\* C25: logger message layout - every emitted message is written from
\* offset 0 as color escape (if colorized and the level is error, warn or
\* debug), 15-character timestamp (if timestamped), level name, " - ", the
\* arguments in call order, color reset (if colorized) and a NUL, so that
\* getLastMessage() returns exactly the most recently emitted message with
\* no residue of an earlier, longer one.
C25_Layout ==
    (last.op = "log" /\ emitted # <<>>) =>
        /\ emitted[1].text =
              Layout(last.msg_level, StampOf(last.msg_level, emitted[1].text), last.args)
        /\ getLastMessage(buffer) = emitted[1].text

\* Values at most v that differ from it near its top or its bottom: 0, v
\* itself, v - 1, v without its lowest bit, v without its top bit, and the
\* largest value below v's top bit
Below(v) ==
    IF v = Zero THEN {Zero}
    ELSE {Zero, v, Decrement(v, W), v \ {MinOf(v)}, v \ {MaxOf(v)}, 0 .. (MaxOf(v) - 1)}

\* Tuples that are at most t on every axis: one axis lowered, or every axis
\* lowered the same way
Dominated(t) ==
    UNION {{[t EXCEPT ![i] = v] : v \in Below(t[i])} : i \in 1 .. D} \cup
    {[i \in 1 .. D |-> Zero],
     [i \in 1 .. D |-> Decrement(t[i], W) \cap t[i]],
     [i \in 1 .. D |-> t[i] \ {MaxOf(t[i] \cup {0})}]}

\* C26: Z-order monotonicity - for in-range tuples, if every coordinate of
\* one tuple is at most the corresponding coordinate of another, its code is
\* at most the other's code; and if all coordinates are below 2^k the code
\* is below 2^(D * k).
C26_Monotone ==
    (pc = "encoded" /\ InRange(coords)) =>
        /\ \A u \in Dominated(coords) :
              (\A i \in 1 .. D : LessEq(u[i], coords[i]))
                  => LessEq(mortonEncode(path, W, D, u), morton[1])
        /\ \A k \in 0 .. AxisBits :
              (\A i \in 1 .. D : coords[i] \subseteq 0 .. (k - 1))
                  => morton[1] \subseteq 0 .. (D * k - 1)

\* The code of a tuple with a lowered middle axis is strictly below the
\* code of the tuple, and the code is strictly below 2^(3 * 20)
C26_Witness ==
    /\ pc = "encoded" /\ InRange(coords) /\ D = 3 /\ W = 64
    /\ 19 \in coords[2] /\ coords[2] \subseteq 0 .. 19
    /\ coords[1] \subseteq 0 .. 19 /\ coords[3] \subseteq 0 .. 19
    /\ \E u \in Dominated(coords) :
          /\ u[2] # coords[2]
          /\ LessEq(u[2], coords[2])
          /\ mortonEncode(path, W, D, u) # morton[1]
          /\ LessEq(mortonEncode(path, W, D, u), morton[1])
    /\ morton[1] \subseteq 0 .. 59

\* C27: reverse round trip - for every 2D code c of either width
\* mortonEncode(mortonDecode(c)) is c, and for every 3D code it is c with
\* the bits at positions 3 * floor(W / 3) and above cleared; in particular
\* the encode call on the decoded coordinates returns.
C27_ReverseRoundTrip ==
    /\ pc = "reencoded" =>
          recode[1] = (IF D = 2 THEN morton[1] ELSE morton[1] \cap (0 .. (3 * AxisBits - 1)))
    /\ ~(pc = "aborted" /\ outs # <<>>)

\* C28: decode output is always valid encode input - for every code, width,
\* dimensionality and realization each coordinate written by integer
\* mortonDecode is at most the max axis coordinate.
C28_DecodeInRange ==
    pc = "decoded" => InRange(outs)

====
